---- MODULE Spec2Model ----
(***************************************************************************)
(* Aariba rule language: the postfix expression evaluator                  *)
(* (src/src/expressions.rs), the condition evaluator                       *)
(* (src/src/conditions.rs) and the rules evaluator with its scope stack    *)
(* (src/src/rules.rs).                                                     *)
(*                                                                         *)
(* Numbers are the I64 variant of ValueType; the F32 variant has no        *)
(* counterpart in TLA+ and is not modelled.  All values reachable within   *)
(* the bounds stay far inside the 64-bit range.                            *)
(***************************************************************************)
EXTENDS Integers, Sequences, FiniteSets, TLC

\* ------------------------------------------------------------------ bounds
\* Longest postfix program given to ExpressionEvaluator::evaluate.
MaxExprLen == 3
\* Most nodes of an expression tree given to the lowering.
MaxTreeSize == 4
\* Most tokens of an expression given to the parser.
MaxTokens == 5
\* Most instruction slots a rule leaves open, all its blocks together.
MaxSlots == 3

\* ------------------------------------------------------------ input alphabet
Names == {"a", "b"}
ConstantValues == {0, 1, 2}
RuleConstantValues == {1, 2}
GlobalInitValue == [n \in Names |-> IF n = "a" THEN 1 ELSE 2]
LocalInitValue == [n \in Names |-> IF n = "a" THEN 2 ELSE 1]

\* ------------------------------------------------- expressions.rs: data types
Operators == {"Plus", "Minus", "Multiply", "Divide", "Pow"}

Constant(v) == [kind |-> "Constant", value |-> v, local |-> FALSE, name |-> "", op |-> ""]
Variable(l, n) == [kind |-> "Variable", value |-> 0, local |-> l, name |-> n, op |-> ""]
Op(o) == [kind |-> "Op", value |-> 0, local |-> FALSE, name |-> "", op |-> o]

ExpressionMember ==
    {Constant(v) : v \in ConstantValues}
        \cup {Variable(l, n) : l \in BOOLEAN, n \in Names}
        \cup {Op(o) : o \in Operators}

\* Result<ValueType,ExpressionError>, plus the abort of the thread (a panic).
Ok(v) == [tag |-> "Ok", value |-> v, text |-> ""]
VariableNotFound(n) == [tag |-> "VariableNotFound", value |-> 0, text |-> n]
InvalidExpression(msg) == [tag |-> "InvalidExpression", value |-> 0, text |-> msg]
Panic(msg) == [tag |-> "Panic", value |-> 0, text |-> msg]
Pending == [tag |-> "Pending", value |-> 0, text |-> ""]

\* Option<ValueType>
Some(v) == [some |-> TRUE, value |-> v]
None == [some |-> FALSE, value |-> 0]

\* ------------------------------------------------ expressions.rs: arithmetic
Abs(x) == IF x < 0 THEN -x ELSE x

\* i64 `/`: truncates toward zero.
TruncDiv(a, b) ==
    IF (a < 0) = (b < 0) THEN Abs(a) \div Abs(b) ELSE -(Abs(a) \div Abs(b))

RECURSIVE IntPow(_, _)
IntPow(a, n) == IF n = 0 THEN 1 ELSE a * IntPow(a, n - 1)

\* An i64 beyond 32 bits is written in two parts, hi * 65536 + lo with lo in
\* 0..65535.
WideOf(n) == [hi |-> n \div 65536, lo |-> n % 65536]
Narrow(w) == w.hi * 65536 + w.lo
Less(x, y) == x.hi < y.hi \/ (x.hi = y.hi /\ x.lo < y.lo)
u32_MAX == [hi |-> 65535, lo |-> 65535]
i32_MIN == [hi |-> -32768, lo |-> 0]
i32_MAX == [hi |-> 32767, lo |-> 65535]

\* ValueType::pow, (I64, I64) arm: the exponent given to i64::pow.
b_as_u32(b) ==
    IF Less(b, WideOf(0)) THEN WideOf(0)
    ELSE IF Less(u32_MAX, b) THEN u32_MAX
    ELSE b

\* ValueType::pow, (F32, I64) arm: the exponent given to f32::powi.
b_as_i32(b) ==
    IF Less(b, i32_MIN) THEN WideOf(0)
    ELSE IF Less(i32_MAX, b) THEN i32_MAX
    ELSE b

\* ValueType; an F32 is left uninterpreted.
I64(b) == [type |-> "I64", value |-> b]
F32(x) == [type |-> "F32", value |-> x]
\* A call of a power routine of the standard library, left uninterpreted.
Power(routine, base, exponent) ==
    [routine |-> routine, base |-> base, exponent |-> exponent]

\* ValueType::pow, on wide integers
ValueType_pow(self, rhs) ==
    CASE self.type = "I64" /\ rhs.type = "I64" ->
            I64(Power("i64::pow", self.value, b_as_u32(rhs.value)))
      [] self.type = "I64" /\ rhs.type = "F32" ->
            F32(Power("f32::powf", self.value, rhs.value))
      [] self.type = "F32" /\ rhs.type = "I64" ->
            F32(Power("f32::powi", self.value, b_as_i32(rhs.value)))
      [] self.type = "F32" /\ rhs.type = "F32" ->
            F32(Power("f32::powf", self.value, rhs.value))

\* ValueType::pow, (I64, I64) arm, on the small integers of a program.
pow(a, b) == Ok(IntPow(a, Narrow(b_as_u32(WideOf(b)))))

\* impl Div for ValueType, (I64, I64) arm: a zero divisor aborts the thread.
div(a, b) ==
    IF b = 0 THEN Panic("attempt to divide by zero") ELSE Ok(TruncDiv(a, b))

add(a, b) == Ok(a + b)
sub(a, b) == Ok(a - b)
mul(a, b) == Ok(a * b)

\* The `match operator` of evaluate.
ApplyOperator(operator, member1, member2) ==
    CASE operator = "Plus" -> add(member1, member2)
      [] operator = "Minus" -> sub(member1, member2)
      [] operator = "Multiply" -> mul(member1, member2)
      [] operator = "Divide" -> div(member1, member2)
      [] operator = "Pow" -> pow(member1, member2)

\* impl Gettable for HashMap<String,ValueType>: self.get(var).cloned()
get_var(store, var) ==
    IF var \in DOMAIN store THEN Some(store[var]) ELSE None

\* A `Gettable` trait object is the function its get_var computes.
HashMapGettable(store) == [n \in Names |-> get_var(store, n)]

\* --------------------------------------- expressions.rs: evaluate, one member
Continue(st) == [stack |-> st, result |-> Pending]
Stop(st, r) == [stack |-> st, result |-> r]

MissingMember(operator) == InvalidExpression("Missing member for operator")

\* A changed lookup: a name the selected store lacks is taken from the other.
EvalVariable_fallback(member, stack, global_variables, local_variables) ==
    LET first == IF member.local
                 THEN local_variables[member.name]
                 ELSE global_variables[member.name]
        second == IF member.local
                  THEN global_variables[member.name]
                  ELSE local_variables[member.name]
        found == IF first.some THEN first ELSE second
    IN  IF found.some
        THEN Continue(Append(stack, found.value))
        ELSE Stop(stack, VariableNotFound(member.name))

\* Variable{local, name}: the store is selected by `local`.
EvalVariable(member, stack, global_variables, local_variables) ==
    LET found == IF member.local
                 THEN local_variables[member.name]
                 ELSE global_variables[member.name]
    IN  IF found.some
        THEN Continue(Append(stack, found.value))
        ELSE Stop(stack, VariableNotFound(member.name))

\* A changed operator step: the value popped first is taken as the left operand.
EvalOp_swapped(member, stack) ==
    IF Len(stack) < 2 THEN Stop(<<>>, MissingMember(member.op))
    ELSE LET result == ApplyOperator(member.op, stack[Len(stack)], stack[Len(stack) - 1])
             rest == SubSeq(stack, 1, Len(stack) - 2)
         IN  IF result.tag = "Ok" THEN Continue(Append(rest, result.value))
             ELSE Stop(rest, result)

\* Op(operator): member2 is popped first, member1 second.
EvalOp(member, stack) ==
    IF Len(stack) = 0 THEN Stop(stack, MissingMember(member.op))
    ELSE LET member2 == stack[Len(stack)]
             stack1 == SubSeq(stack, 1, Len(stack) - 1)
         IN  IF Len(stack1) = 0 THEN Stop(stack1, MissingMember(member.op))
             ELSE LET member1 == stack1[Len(stack1)]
                      stack2 == SubSeq(stack1, 1, Len(stack1) - 1)
                      result == ApplyOperator(member.op, member1, member2)
                  IN  IF result.tag = "Ok"
                      THEN Continue(Append(stack2, result.value))
                      ELSE Stop(stack2, result)

\* The body of `for member in self.expression.iter()`.
EvalMember(member, stack, global_variables, local_variables) ==
    CASE member.kind = "Constant" -> Continue(Append(stack, member.value))
      [] member.kind = "Variable" ->
            EvalVariable(member, stack, global_variables, local_variables)
      [] member.kind = "Op" -> EvalOp(member, stack)

\* After the loop: pop the result, the stack must then be empty.
EvalEnd(stack) ==
    IF Len(stack) = 0
    THEN InvalidExpression("No result at the end of the expression")
    ELSE IF Len(stack) > 1
    THEN InvalidExpression("Stack not empty at the end of the expression")
    ELSE Ok(stack[1])

RECURSIVE EvalFrom(_, _, _, _, _)
EvalFrom(expression, i, stack, global_variables, local_variables) ==
    IF i > Len(expression) THEN EvalEnd(stack)
    ELSE LET s == EvalMember(expression[i], stack, global_variables, local_variables)
         IN  IF s.result = Pending
             THEN EvalFrom(expression, i + 1, s.stack, global_variables, local_variables)
             ELSE s.result

\* ExpressionEvaluator::evaluate
evaluate(expression, global_variables, local_variables) ==
    EvalFrom(expression, 1, <<>>, global_variables, local_variables)

\* ---------------------------------------------------------- conditions.rs
CompOp == {"SuperiorStrict", "SuperiorEqual", "InferiorStrict", "InferiorEqual",
           "Equal", "Different"}
LogicOp == {"And", "Or"}

Logic(l, op, r) == [kind |-> "Logic", left |-> l, op |-> op, right |-> r]
Comparison(l, op, r) == [kind |-> "Comparison", left |-> l, op |-> op, right |-> r]
Exists(n) == [kind |-> "Exists", name |-> n]

\* Result<bool,ExpressionError>
OkBool(b) == [tag |-> "Ok", value |-> b, text |-> ""]
CondPending == [tag |-> "Pending", value |-> FALSE, text |-> ""]
\* try!: the ExpressionError (or the abort) of an operand is the outcome.
Raise(r) == [tag |-> r.tag, value |-> FALSE, text |-> r.text]

\* `match op` of the Comparison arm, on OrderedFloat(l), OrderedFloat(r).
Compare(op, l, r) ==
    CASE op = "SuperiorStrict" -> l > r
      [] op = "InferiorStrict" -> l < r
      [] op = "Equal" -> l = r
      [] op = "Different" -> l # r
      [] op = "SuperiorEqual" -> l >= r
      [] op = "InferiorEqual" -> l <= r

\* A changed Logic arm: r is evaluated first and its error returned, whatever
\* the value of l.
LogicResult_eager(result_left, op, right) ==
    IF right.tag # "Ok" THEN right
    ELSE IF op = "And" THEN OkBool(result_left /\ right.value)
    ELSE OkBool(result_left \/ right.value)

\* `match (result_left, op)` of the Logic arm; right is the outcome of r,
\* used only in the two arms that evaluate r.
LogicResult(result_left, op, right) ==
    CASE (~result_left) /\ op = "And" -> OkBool(FALSE)
      [] result_left /\ op = "Or" -> OkBool(TRUE)
      [] OTHER -> right

\* A changed Comparison arm: right is evaluated before left.
EvalComparison_right_first(cond, global, local) ==
    LET r == evaluate(cond.right, global, local)
    IN  IF r.tag # "Ok" THEN Raise(r)
        ELSE LET l == evaluate(cond.left, global, local)
             IN  IF l.tag # "Ok" THEN Raise(l)
                 ELSE OkBool(Compare(cond.op, l.value, r.value))

\* Comparison(left, op, right): try!(left.evaluate), try!(right.evaluate),
\* then `match op`.
EvalComparison(cond, global, local) ==
    LET l == evaluate(cond.left, global, local)
    IN  IF l.tag # "Ok" THEN Raise(l)
        ELSE LET r == evaluate(cond.right, global, local)
             IN  IF r.tag # "Ok" THEN Raise(r)
                 ELSE OkBool(Compare(cond.op, l.value, r.value))

\* A changed Exists: a binding in either store makes it true.
EvalExists_any(cond, global, local) ==
    OkBool(global[cond.name].some \/ local[cond.name].some)

\* Exists(name): global.get_attribute(name).is_some()
EvalExists(cond, global, local) == OkBool(global[cond.name].some)

\* Condition::evaluate
RECURSIVE Condition_evaluate(_, _, _)
Condition_evaluate(cond, global, local) ==
    CASE cond.kind = "Logic" ->
            LET result_left == Condition_evaluate(cond.left, global, local)
            IN  IF result_left.tag # "Ok" THEN result_left
                ELSE LogicResult(result_left.value, cond.op,
                                 Condition_evaluate(cond.right, global, local))
      [] cond.kind = "Comparison" -> EvalComparison(cond, global, local)
      [] cond.kind = "Exists" -> EvalExists(cond, global, local)

\* ------------------------------------------------------- rules.rs: Scopes
EmptyMap == [n \in {} |-> 0]

\* Scopes::new
Scopes_new == <<>>

\* A changed push: no scope is opened.
push_nothing(inner) == inner

\* Scopes::push
push(inner) == Append(inner, EmptyMap)

\* A changed pop: the scope of a finished block stays on the stack.
pop_nothing(inner) == inner

\* Scopes::pop: Vec::pop, nothing happens on an empty vector.
pop(inner) == IF Len(inner) = 0 THEN inner ELSE SubSeq(inner, 1, Len(inner) - 1)

\* Scopes::get_attribute: `for scope in self.inner.iter().rev()`
RECURSIVE GetFrom(_, _, _)
GetFrom(inner, i, name) ==
    IF i = 0 THEN None
    ELSE IF name \in DOMAIN inner[i] THEN Some(inner[i][name])
    ELSE GetFrom(inner, i - 1, name)

get_attribute(inner, name) == GetFrom(inner, Len(inner), name)

ScopesGettable(inner) == [n \in Names |-> get_attribute(inner, n)]

\* A changed insert: the other keys of the map are lost.
Insert_alone(map, name, value) == [n \in {name} |-> value]

\* HashMap::insert
Insert(map, name, value) ==
    [n \in DOMAIN map \cup {name} |-> IF n = name THEN value ELSE map[n]]

\* Scopes::set_attribute, the loop: `for scope in self.inner.iter_mut().rev()`
\* replaces the value in the first scope (from the innermost) that has `name`.
RECURSIVE SetFrom(_, _, _, _)
SetFrom(inner, i, name, value) ==
    IF i = 0 THEN [found |-> FALSE, inner |-> inner, old |-> None]
    ELSE IF name \in DOMAIN inner[i]
    THEN [found |-> TRUE,
          inner |-> [inner EXCEPT ![i] = [@ EXCEPT ![name] = value]],
          old |-> Some(inner[i][name])]
    ELSE SetFrom(inner, i - 1, name, value)

\* A changed set_attribute: the name is always inserted in the innermost
\* scope, as classic lexical shadowing would do.
set_attribute_shadowing(inner, name, value) ==
    [inner |-> [inner EXCEPT ![Len(inner)] = Insert(@, name, value)],
     returned |-> IF name \in DOMAIN inner[Len(inner)]
                  THEN Some(inner[Len(inner)][name]) ELSE None]

\* Scopes::set_attribute: Ok(Some(old)), or the name is created in the last
\* scope and the result is Ok(None).  (last_mut().unwrap() needs a scope:
\* evaluate_inner has pushed one.)
set_attribute(inner, name, value) ==
    LET hit == SetFrom(inner, Len(inner), name, value)
    IN  IF hit.found THEN [inner |-> hit.inner, returned |-> hit.old]
        ELSE [inner |-> [inner EXCEPT ![Len(inner)] = Insert(@, name, value)],
              returned |-> None]

\* ------------------------------------------------ rules.rs: the global store
\* Store::set_attribute of the caller's store: the write is refused (Err(()))
\* for the names the store does not accept, otherwise the value is inserted
\* and the previous one returned.
global_set_attribute(store, refusing, name, value) ==
    IF name \in refusing
    THEN [ok |-> FALSE, store |-> store, returned |-> None]
    ELSE [ok |-> TRUE, store |-> Insert(store, name, value),
          returned |-> get_var(store, name)]

\* -------------------------------------------------- rules.rs: instructions
Assignment(l, n, e) ==
    [kind |-> "Assignment", variable |-> [local |-> l, name |-> n], expression |-> e]
NoBlock == [some |-> FALSE, instructions |-> <<>>]
SomeBlock(b) == [some |-> TRUE, instructions |-> b]
IfBlock(c, t, e) ==
    [kind |-> "IfBlock", condition |-> c, then_block |-> t, else_block |-> e]

\* A rule is an input.  An instruction slot that the input leaves open stands
\* for any instruction of the bounded alphabet; it is drawn when the evaluator
\* reaches it (a slot is executed at most once: there are no loops).
Slot == [kind |-> "Slot"]
Slots(k) == [i \in 1..k |-> Slot]

\* Result<(),RulesError>, and the states of a call.
Idle == [tag |-> "Idle", error |-> "", text |-> ""]
Running == [tag |-> "Running", error |-> "", text |-> ""]
RulesOk == [tag |-> "Ok", error |-> "", text |-> ""]
\* impl From<ExpressionError> for RulesError
RulesError_from(err) == [tag |-> "Expression", error |-> err.tag, text |-> err.text]
CannotSetVariable(n) == [tag |-> "CannotSetVariable", error |-> "", text |-> n]
Aborted(err) == [tag |-> "Panic", error |-> "", text |-> err.text]

\* try!(...): an ExpressionError becomes RulesError::Expression, an abort
\* stays an abort.
Failure(r) == IF r.tag = "Panic" THEN Aborted(r) ELSE RulesError_from(r)

\* ------------------------------------------------------ parser/ast.rs: Expr
Opcode == {"Plus", "Minus", "Multiply", "Divide", "Pow"}
Func == {"Rand", "Min", "Max", "Sin", "Cos"}
Sign == {"Plus", "Minus"}

Number(n) == [kind |-> "Number", num |-> n]
Expr_Variable(l, n) == [kind |-> "Variable", local |-> l, name |-> n]
Function(func, args) == [kind |-> "Function", func |-> func, args |-> args]
Expr_Op(l, op, r) == [kind |-> "Op", l |-> l, op |-> op, r |-> r]
Signed(sign, r) == [kind |-> "Signed", sign |-> sign, r |-> r]

\* ----------------------------------------------- parser/mod.rs: the lowering
\* Operator::Unary(..) and Operator::Binary(..), as the lowering builds them.
Unary(o) == [arity |-> 1, operator |-> o]
Binary(o) == [arity |-> 2, operator |-> o]

\* impl Into<ExpressionMember> for Opcode
Opcode_into(op) ==
    CASE op = "Plus" -> Op(Binary("Plus"))
      [] op = "Minus" -> Op(Binary("Minus"))
      [] op = "Multiply" -> Op(Binary("Multiply"))
      [] op = "Divide" -> Op(Binary("Divide"))
      [] op = "Pow" -> Op(Binary("Pow"))

\* impl Into<ExpressionMember> for Func (and for FunctionKind)
Func_into(func) ==
    CASE func = "Sin" -> Op(Unary("Sin"))
      [] func = "Cos" -> Op(Unary("Cos"))
      [] func = "Min" -> Op(Binary("Min"))
      [] func = "Max" -> Op(Binary("Max"))
      [] func = "Rand" -> Op(Binary("Rand"))

\* A changed lowering of a binary node: the right operand is lowered first.
Expr_convert_Op_swapped(l, op, r) == r \o l \o <<Opcode_into(op)>>

\* Expr::Op(l, op, r): `l.convert(res); r.convert(res); res.push(op.into())`,
\* l and r standing for what the two calls have pushed.
Expr_convert_Op(l, op, r) == l \o r \o <<Opcode_into(op)>>

\* A changed Signed arm: a minus is elided as a plus is.
Expr_convert_Signed_elided(sign, r) == r

\* Expr::Signed(sign, r): `r.convert(res)`, then nothing for Sign::Plus and
\* the unary Minus for Sign::Minus.
Expr_convert_Signed(sign, r) ==
    IF sign = "Plus" THEN r ELSE r \o <<Op(Unary("Minus"))>>

\* Expr::convert: what the call pushes on res.
RECURSIVE Expr_convert(_)
RECURSIVE Expr_convert_args(_)
Expr_convert(self) ==
    CASE self.kind = "Number" -> <<Constant(self.num)>>
      [] self.kind = "Variable" -> <<Variable(self.local, self.name)>>
      [] self.kind = "Function" ->
            Expr_convert_args(self.args) \o <<Func_into(self.func)>>
      [] self.kind = "Op" ->
            Expr_convert_Op(Expr_convert(self.l), self.op, Expr_convert(self.r))
      [] self.kind = "Signed" ->
            Expr_convert_Signed(self.sign, Expr_convert(self.r))

\* `for arg in args { arg.convert(res); }`
Expr_convert_args(args) ==
    IF Len(args) = 0 THEN <<>>
    ELSE Expr_convert(Head(args)) \o Expr_convert_args(Tail(args))

\* convert_expression
convert_expression(expr) == Expr_convert(expr)

\* parser/expressions.rs, Node::convert: a Node is an Expr without Signed,
\* with one variant for each binary operator.
RECURSIVE Node_convert(_)
RECURSIVE Node_convert_operands(_)
Node_convert(self) ==
    CASE self.kind = "Number" -> <<Constant(self.num)>>
      [] self.kind = "Variable" -> <<Variable(self.local, self.name)>>
      [] self.kind = "Function" ->
            Node_convert_operands(self.args) \o <<Func_into(self.func)>>
      [] self.kind = "Op" /\ self.op = "Plus" ->
            Node_convert(self.l) \o Node_convert(self.r) \o <<Op(Binary("Plus"))>>
      [] self.kind = "Op" /\ self.op = "Minus" ->
            Node_convert(self.l) \o Node_convert(self.r) \o <<Op(Binary("Minus"))>>
      [] self.kind = "Op" /\ self.op = "Multiply" ->
            Node_convert(self.l) \o Node_convert(self.r) \o <<Op(Binary("Multiply"))>>
      [] self.kind = "Op" /\ self.op = "Divide" ->
            Node_convert(self.l) \o Node_convert(self.r) \o <<Op(Binary("Divide"))>>
      [] self.kind = "Op" /\ self.op = "Pow" ->
            Node_convert(self.l) \o Node_convert(self.r) \o <<Op(Binary("Pow"))>>

Node_convert_operands(operands) ==
    IF Len(operands) = 0 THEN <<>>
    ELSE Node_convert(Head(operands)) \o Node_convert_operands(Tail(operands))

\* ---------------------- the evaluator of lowered programs (unary and binary)
\* A number is what a constant or a variable pushes; the result of an
\* operator is the operator applied to its operands in order (floating-point
\* arithmetic is left uninterpreted: no application fails).
Num(n) == <<"num", n>>
Apply1(operator, member) == <<operator, member>>
Apply2(operator, member1, member2) == <<operator, member1, member2>>

\* Op(operator): N operands are popped, 1 for a unary and 2 for a binary
\* operator, the right operand first.
EvalOperator(member, stack) ==
    IF Len(stack) < member.op.arity THEN Stop(stack, MissingMember(member.op))
    ELSE IF member.op.arity = 1
    THEN Continue(Append(SubSeq(stack, 1, Len(stack) - 1),
                         Apply1(member.op.operator, stack[Len(stack)])))
    ELSE Continue(Append(SubSeq(stack, 1, Len(stack) - 2),
                         Apply2(member.op.operator, stack[Len(stack) - 1],
                                stack[Len(stack)])))

EvalLoweredVariable(member, stack, global_variables, local_variables) ==
    LET found == IF member.local
                 THEN local_variables[member.name]
                 ELSE global_variables[member.name]
    IN  IF found.some
        THEN Continue(Append(stack, Num(found.value)))
        ELSE Stop(stack, VariableNotFound(member.name))

EvalLoweredMember(member, stack, global_variables, local_variables) ==
    CASE member.kind = "Constant" -> Continue(Append(stack, Num(member.value)))
      [] member.kind = "Variable" ->
            EvalLoweredVariable(member, stack, global_variables, local_variables)
      [] member.kind = "Op" -> EvalOperator(member, stack)

\* ------------------------------------------------- the expression parser
\* The tokens of an expression: number literals, operators, parentheses.
NumberTokens == {"1", "2", "3"}
Tokens == NumberTokens \cup {"+", "-", "*", "^", "(", ")"}
NumberOf(token) == CASE token = "1" -> 1 [] token = "2" -> 2 [] token = "3" -> 3
BinOp(token) ==
    CASE token = "+" -> "Plus" [] token = "-" -> "Minus"
      [] token = "*" -> "Multiply" [] token = "^" -> "Pow"
SignOf(token) == CASE token = "+" -> "Plus" [] token = "-" -> "Minus"

\* A changed fold: the chain nests to the right.
RECURSIVE combine_right(_, _)
combine_right(left, right_vec) ==
    IF Len(right_vec) = 0 THEN left
    ELSE Expr_Op(left, right_vec[1][1],
                 combine_right(right_vec[1][2], Tail(right_vec)))

\* combine: `res` starts as the first operand and becomes the left operand of
\* every (operator, operand) pair in turn.
RECURSIVE combine(_, _)
combine(left, right_vec) ==
    IF Len(right_vec) = 0 THEN left
    ELSE combine(Expr_Op(left, right_vec[1][1], right_vec[1][2]), Tail(right_vec))

ParseError == [tag |-> "ParseError", value |-> 0, text |-> ""]
Rejected == [ok |-> FALSE, tree |-> Number(0), pairs |-> <<>>, rest |-> <<>>]
Parsed(tree, rest) == [ok |-> TRUE, tree |-> tree, pairs |-> <<>>, rest |-> rest]
Starts(toks, set) == Len(toks) > 0 /\ Head(toks) \in set

RECURSIVE ParseChain(_, _)
RECURSIVE ParsePairs(_, _)
RECURSIVE ParsePower(_)
RECURSIVE ParsePrimary(_)

\* unary sign: a prefix + or - in front of a power.
ParseSigned(toks) ==
    IF Starts(toks, {"+", "-"})
    THEN LET r == ParsePower(Tail(toks))
         IN  IF r.ok THEN Parsed(Signed(SignOf(Head(toks)), r.tree), r.rest)
             ELSE Rejected
    ELSE ParsePower(toks)

\* The operators of a chain: level 1 is additive, level 2 multiplicative.
ChainOperators(level) == IF level = 1 THEN {"+", "-"} ELSE {"*"}
ParseOperand(level, toks) ==
    IF level = 1 THEN ParseChain(2, toks) ELSE ParseSigned(toks)

\* additive and multiplicative: an operand, then (operator, operand) pairs,
\* folded by combine.
ParseChain(level, toks) ==
    LET first == ParseOperand(level, toks)
    IN  IF ~first.ok THEN Rejected
        ELSE LET others == ParsePairs(level, first.rest)
             IN  IF others.ok
                 THEN Parsed(combine(first.tree, others.pairs), others.rest)
                 ELSE Rejected

ParsePairs(level, toks) ==
    IF Starts(toks, ChainOperators(level))
    THEN LET right == ParseOperand(level, Tail(toks))
         IN  IF ~right.ok THEN Rejected
             ELSE LET others == ParsePairs(level, right.rest)
                  IN  IF others.ok
                      THEN [others EXCEPT
                              !.pairs = <<<<BinOp(Head(toks)), right.tree>>>> \o @]
                      ELSE Rejected
    ELSE [Parsed(Number(0), toks) EXCEPT !.pairs = <<>>]

\* power: a primary, then ^ and a power (no sign may start the exponent).
ParsePower(toks) ==
    LET base == ParsePrimary(toks)
    IN  IF ~base.ok THEN Rejected
        ELSE IF Starts(base.rest, {"^"})
        THEN LET e == ParsePower(Tail(base.rest))
             IN  IF e.ok THEN Parsed(Expr_Op(base.tree, "Pow", e.tree), e.rest)
                 ELSE Rejected
        ELSE base

\* primary: a number literal or a parenthesised expression.
ParsePrimary(toks) ==
    IF Starts(toks, NumberTokens)
    THEN Parsed(Number(NumberOf(Head(toks))), Tail(toks))
    ELSE IF Starts(toks, {"("})
    THEN LET inner == ParseChain(1, Tail(toks))
         IN  IF inner.ok /\ Starts(inner.rest, {")"})
             THEN Parsed(inner.tree, Tail(inner.rest))
             ELSE Rejected
    ELSE Rejected

\* parse_Expr: the whole input is one expression.
parse_Expr(toks) ==
    LET r == ParseChain(1, toks)
    IN  IF r.ok /\ Len(r.rest) = 0 THEN r ELSE Rejected

\* ------------------------------------------------------------------ inputs
RECURSIVE SeqsUpTo(_, _)
SeqsUpTo(S, n) ==
    IF n = 0 THEN {<<>>}
    ELSE LET shorter == SeqsUpTo(S, n - 1)
         IN  shorter \cup {Append(s, x) : s \in {t \in shorter : Len(t) = n - 1}, x \in S}

Expressions == SeqsUpTo(ExpressionMember, MaxExprLen)

GlobalStores == {[n \in S |-> GlobalInitValue[n]] : S \in SUBSET Names}
LocalStores == {[n \in S |-> LocalInitValue[n]] : S \in SUBSET Names}

\* Conditions given to Condition::evaluate: every comparison of two operands
\* (a constant, a variable, or the empty program, which is ill-formed), every
\* existence check, and Logic trees of one and two levels over them.
CondOperands ==
    {<<m>> : m \in {x \in ExpressionMember : x.kind # "Op"}} \cup {<<>>}
Leaves ==
    {Comparison(l, op, r) : l \in CondOperands, op \in CompOp, r \in CondOperands}
        \cup {Exists(n) : n \in Names}
LogicOperands ==
    {Exists(n) : n \in Names}
        \cup {Comparison(l, "Equal", <<Constant(1)>>) : l \in CondOperands}
Logic1 == {Logic(l, op, r) : l \in LogicOperands, op \in LogicOp, r \in LogicOperands}
Logic2 ==
    {Logic(l, op, r) : l \in Logic1, op \in LogicOp, r \in LogicOperands}
        \cup {Logic(l, op, r) : l \in LogicOperands, op \in LogicOp, r \in Logic1}
Conditions == Leaves \cup Logic1 \cup Logic2

\* Expressions of the instructions of a rule: a constant, a variable, and
\* the two shortest ill-formed programs (empty, and an operator alone).
RuleOperands ==
    {<<Constant(v)>> : v \in RuleConstantValues}
        \cup {<<Variable(l, n)>> : l \in BOOLEAN, n \in Names}
\* An integer division by zero: the expression of a rule that aborts.
DivisionByZero == <<Constant(1), Constant(0), Op("Divide")>>
RuleExpressions == RuleOperands \cup {<<>>, DivisionByZero}

\* Conditions of the if-blocks of a rule.
RuleConditions ==
    {Exists(n) : n \in Names}
        \cup {Comparison(l, "Equal", <<Constant(1)>>) : l \in RuleOperands}

\* `local=1; if 1 == 1 { local=2; $g=local; } $h=local;` with a for local,
\* $a for $g and $b for $h.
TrueCondition == Comparison(<<Constant(1)>>, "Equal", <<Constant(1)>>)
ScopingExample ==
    << Assignment(TRUE, "a", <<Constant(1)>>),
       IfBlock(TrueCondition,
               << Assignment(TRUE, "a", <<Constant(2)>>),
                  Assignment(FALSE, "a", <<Variable(TRUE, "a")>>) >>,
               NoBlock),
       Assignment(FALSE, "b", <<Variable(TRUE, "a")>>) >>

\* `if 1 == 1 { a=2; if 1 == 1 { $a=a; } } if 1 == 1 { $b=a; $b=1; } $a=1;`:
\* a is first bound inside the first branch, read in a block nested in it,
\* and read again in a sibling branch, where two instructions follow the read.
ScopeEndExample ==
    << IfBlock(TrueCondition,
               << Assignment(TRUE, "a", <<Constant(2)>>),
                  IfBlock(TrueCondition,
                          << Assignment(FALSE, "a", <<Variable(TRUE, "a")>>) >>,
                          NoBlock) >>,
               NoBlock),
       IfBlock(TrueCondition,
               << Assignment(FALSE, "b", <<Variable(TRUE, "a")>>),
                  Assignment(FALSE, "b", <<Constant(1)>>) >>,
               NoBlock),
       Assignment(FALSE, "a", <<Constant(1)>>) >>

\* `if $a exists { $b=1; } else { $a=2; }`
IfElseExample ==
    << IfBlock(Exists("a"),
               << Assignment(FALSE, "b", <<Constant(1)>>) >>,
               SomeBlock(<< Assignment(FALSE, "a", <<Constant(2)>>) >>)) >>

Programs ==
    {Slots(k) : k \in 0..MaxSlots}
        \cup {ScopingExample, ScopeEndExample, IfElseExample}

\* Expression trees given to the lowering, by number of nodes: every shape
\* over two binary operators, a unary and a binary function with any number
\* of arguments, both signs, a number and a variable of each store.
TreeOpcodes == {"Minus", "Divide"}
TreeFuncs == {"Sin", "Min"}
TreeLeaves == {Number(1), Expr_Variable(TRUE, "b"), Expr_Variable(FALSE, "a")}

RECURSIVE TreesOfSize(_)
RECURSIVE ArgumentsOfSize(_)
TreesOfSize(n) ==
    IF n = 1 THEN TreeLeaves \cup {Function(f, <<>>) : f \in TreeFuncs}
    ELSE {Signed(sign, r) : sign \in Sign, r \in TreesOfSize(n - 1)}
         \cup UNION {{Expr_Op(l, op, r) :
                         op \in TreeOpcodes,
                         l \in TreesOfSize(k), r \in TreesOfSize(n - 1 - k)} :
                     k \in 1..(n - 2)}
         \cup {Function(f, args) : f \in TreeFuncs, args \in ArgumentsOfSize(n - 1)}

\* The argument lists with m nodes in all.
ArgumentsOfSize(m) ==
    IF m = 0 THEN {<<>>}
    ELSE UNION {{<<first>> \o rest :
                    first \in TreesOfSize(k), rest \in ArgumentsOfSize(m - k)} :
                k \in 1..m}

Trees == UNION {TreesOfSize(n) : n \in 1..MaxTreeSize}

\* The stores a lowered program is evaluated on: local b is bound, global a
\* is bound or not.
LoweredGlobalStores == {g \in GlobalStores : DOMAIN g \subseteq {"a"}}
LoweredLocalStores == {l \in LocalStores : DOMAIN l = {"b"}}

\* The expressions given to the parser: every sequence of tokens without
\* parentheses, and, one token longer, every sequence of the tokens of a
\* signed power in parentheses.
PlainInputs == UNION {[1..n -> Tokens \ {"(", ")"}] : n \in 0..MaxTokens}
NestedInputs == UNION {[1..n -> {"2", "-", "^", "(", ")"}] : n \in 0..(MaxTokens + 1)}

\* The operands given to ValueType::pow: integers around 0 and around each
\* limit of the exponent, and two floats.
PowExponents ==
    {[hi |-> h, lo |-> l] :
        h \in {-32769, -32768, -1, 0, 32767, 32768, 65535, 65536}, l \in {0, 1, 65535}}
PowIntegers == {I64(w) : w \in PowExponents}
PowFloats == {F32(x) : x \in {"x", "y"}}

\* ------------------------------------------------------------------- state
VARIABLES
    e_input,        \* the tokens that are parsed
    e_tree,         \* the expression tree that is lowered
    e_expression,   \* the postfix program under evaluation
    e_global,       \* global_variables
    e_local,        \* local_variables
    e_index,        \* position of the next member
    e_stack,        \* the operand stack
    e_result,       \* Pending, or what evaluate returned
    c_condition,    \* the condition given to Condition::evaluate
    c_result,       \* CondPending, or what Condition::evaluate returned
    program,        \* the instructions of the RulesEvaluator being evaluated
    global,         \* the caller's global store
    refused,        \* the names whose writes the global store refuses
    scopes,         \* Scopes.inner of the running call
    frames,         \* per active evaluate_inner: the instructions still to run
    result,         \* Idle, Running, or what RulesEvaluator::evaluate returned
    slots,          \* number of open slots of the rule that are still undrawn
    assigned,       \* the global names this call has set so far (history)
    entered,        \* per active evaluate_inner: the keys of each scope at entry (history)
    last            \* what the last step did (history)

evars == <<e_input, e_tree, e_expression, e_global, e_local, e_index, e_stack, e_result,
          c_condition, c_result>>
rvars == <<program, global, refused, scopes, frames, result, slots, assigned,
          entered, last>>
vars == <<evars, rvars>>

\* --------------------------------------- the expression evaluator, stepwise
RulesIdle ==
    /\ program = <<>>
    /\ global = EmptyMap
    /\ refused = {}
    /\ scopes = Scopes_new
    /\ frames = <<>>
    /\ result = Idle
    /\ slots = 0
    /\ assigned = {}
    /\ entered = <<>>
    /\ last = [kind |-> "none"]

CondIdle ==
    /\ c_condition = Exists("a")
    /\ c_result = CondPending

TreeIdle == e_input = <<>> /\ e_tree = Number(0)

ExprInit ==
    /\ e_expression \in Expressions
    /\ e_global \in GlobalStores
    /\ e_local \in LocalStores
    /\ e_index = 1
    /\ e_stack = <<>>
    /\ e_result = Pending
    /\ TreeIdle
    /\ CondIdle
    /\ RulesIdle

ExprStep(kind) ==
    /\ e_result = Pending
    /\ e_index <= Len(e_expression)
    /\ e_expression[e_index].kind = kind
    /\ LET s == EvalMember(e_expression[e_index], e_stack,
                            HashMapGettable(e_global), HashMapGettable(e_local))
       IN  /\ e_stack' = s.stack
           /\ e_result' = s.result
    /\ e_index' = e_index + 1
    /\ UNCHANGED <<e_input, e_tree, e_expression, e_global, e_local, c_condition, c_result,
                   rvars>>

ExprConstant == ExprStep("Constant")
ExprVariable == ExprStep("Variable")
ExprOp == ExprStep("Op")

ExprEnd ==
    /\ e_result = Pending
    /\ e_index > Len(e_expression)
    /\ e_result' = EvalEnd(e_stack)
    /\ e_stack' = IF Len(e_stack) = 0 THEN e_stack
                   ELSE SubSeq(e_stack, 1, Len(e_stack) - 1)
    /\ UNCHANGED <<e_input, e_tree, e_expression, e_global, e_local, e_index, c_condition,
                   c_result, rvars>>

ExprNext == ExprConstant \/ ExprVariable \/ ExprOp \/ ExprEnd

SpecExpr == ExprInit /\ [][ExprNext]_vars

\* ------------------------------------------------- the condition evaluator
CondInit ==
    /\ c_condition \in Conditions
    /\ c_result = CondPending
    /\ e_global \in GlobalStores
    /\ e_local \in LocalStores
    /\ e_expression = <<>>
    /\ e_index = 1
    /\ e_stack = <<>>
    /\ e_result = Pending
    /\ TreeIdle
    /\ RulesIdle

CondEvaluate(kind) ==
    /\ c_result = CondPending
    /\ c_condition.kind = kind
    /\ c_result' = Condition_evaluate(c_condition, HashMapGettable(e_global),
                                       HashMapGettable(e_local))
    /\ UNCHANGED <<e_input, e_tree, e_expression, e_global, e_local, e_index, e_stack,
                   e_result, c_condition, rvars>>

CondLogic == CondEvaluate("Logic")
CondComparison == CondEvaluate("Comparison")
CondExists == CondEvaluate("Exists")

CondNext == CondLogic \/ CondComparison \/ CondExists

SpecCond == CondInit /\ [][CondNext]_vars

\* ------------------------------------------------------ ValueType::pow
PowInit ==
    /\ \E operands \in {PowIntegers, PowFloats} \X {PowIntegers, PowFloats} :
            \E self \in operands[1], rhs \in operands[2] : e_stack = <<self, rhs>>
    /\ e_expression = <<Op("Pow")>>
    /\ e_global = EmptyMap
    /\ e_local = EmptyMap
    /\ e_index = 1
    /\ e_result = Pending
    /\ TreeIdle
    /\ CondIdle
    /\ RulesIdle

\* self.pow(rhs) on the two operands; the operands are kept.
PowCall ==
    /\ e_result.tag = "Pending"
    /\ e_result' = Ok(ValueType_pow(e_stack[1], e_stack[2]))
    /\ UNCHANGED <<e_input, e_tree, e_expression, e_global, e_local, e_index,
                   e_stack, c_condition, c_result, rvars>>

SpecPow == PowInit /\ [][PowCall]_vars

\* ------------------------------- the lowering, then the lowered program
LowerInit ==
    /\ e_input = <<>>
    /\ e_tree \in Trees
    /\ e_global \in LoweredGlobalStores
    /\ e_local \in LoweredLocalStores
    /\ e_expression = <<>>
    /\ e_index = 0
    /\ e_stack = <<>>
    /\ e_result = Pending
    /\ CondIdle
    /\ RulesIdle

\* convert_expression: the tree becomes the program of an ExpressionEvaluator.
Lower ==
    /\ e_index = 0
    /\ e_result.tag = "Pending"
    /\ e_expression' = convert_expression(e_tree)
    /\ e_index' = 1
    /\ UNCHANGED <<e_input, e_tree, e_global, e_local, e_stack, e_result,
                   c_condition, c_result, rvars>>

LoweredStep(kind) ==
    /\ e_result.tag = "Pending"
    /\ e_index >= 1
    /\ e_index <= Len(e_expression)
    /\ e_expression[e_index].kind = kind
    /\ LET s == EvalLoweredMember(e_expression[e_index], e_stack,
                                   HashMapGettable(e_global),
                                   HashMapGettable(e_local))
       IN  /\ e_stack' = s.stack
           /\ e_result' = s.result
    /\ e_index' = e_index + 1
    /\ UNCHANGED <<e_input, e_tree, e_expression, e_global, e_local, c_condition, c_result,
                   rvars>>

LoweredConstant == LoweredStep("Constant")
LoweredVariable == LoweredStep("Variable")
LoweredOp == LoweredStep("Op")

LoweredEnd ==
    /\ e_result.tag = "Pending"
    /\ e_index > Len(e_expression)
    /\ e_result' = EvalEnd(e_stack)
    /\ e_stack' = IF Len(e_stack) = 0 THEN e_stack
                   ELSE SubSeq(e_stack, 1, Len(e_stack) - 1)
    /\ UNCHANGED <<e_input, e_tree, e_expression, e_global, e_local, e_index, c_condition,
                   c_result, rvars>>

LowerNext == Lower \/ LoweredConstant \/ LoweredVariable \/ LoweredOp \/ LoweredEnd

SpecLower == LowerInit /\ [][LowerNext]_vars

\* ------------------------- parsing, then lowering and the lowered program
ParseInit ==
    /\ e_input \in PlainInputs \/ e_input \in NestedInputs
    /\ e_tree = Number(0)
    /\ e_global = EmptyMap
    /\ e_local = EmptyMap
    /\ e_expression = <<>>
    /\ e_index = -1
    /\ e_stack = <<>>
    /\ e_result = Pending
    /\ CondIdle
    /\ RulesIdle

\* parse_expr_to_ast: the tokens become a tree, or the input is rejected.
Parse ==
    /\ e_index = -1
    /\ LET r == parse_Expr(e_input)
       IN  IF r.ok
           THEN e_tree' = r.tree /\ e_result' = e_result
           ELSE e_tree' = e_tree /\ e_result' = ParseError
    /\ e_index' = 0
    /\ UNCHANGED <<e_input, e_expression, e_global, e_local, e_stack, c_condition,
                   c_result, rvars>>

ParseNext == Parse \/ Lower \/ LoweredConstant \/ LoweredOp \/ LoweredEnd

SpecParse == ParseInit /\ [][ParseNext]_vars

\* ------------------------------------------------- the rules evaluator
ExprIdle ==
    /\ e_expression = <<>>
    /\ e_global = EmptyMap
    /\ e_local = EmptyMap
    /\ e_index = 1
    /\ e_stack = <<>>
    /\ e_result = Pending
    /\ TreeIdle
    /\ CondIdle

Init ==
    /\ ExprIdle
    /\ program = <<>>
    /\ global \in GlobalStores
    /\ refused \in SUBSET Names
    /\ scopes = Scopes_new
    /\ frames = <<>>
    /\ result = Idle
    /\ slots = 0
    /\ assigned = {}
    /\ entered = <<>>
    /\ last = [kind |-> "none"]

\* The keys of each scope, from the outermost.
KeySets(inner) == [i \in 1..Len(inner) |-> DOMAIN inner[i]]

\* A changed evaluate: the Scopes is kept from one call to the next.
evaluate_local_kept(previous) == previous

\* `let mut local = Scopes::new();`: the Scopes of a call is built by the
\* call, whatever the previous call has left.
evaluate_local(previous) == Scopes_new

\* RulesEvaluator::evaluate: a fresh Scopes, then evaluate_inner, which opens
\* with local.push().
Call ==
    /\ result.tag \in {"Idle", "Ok", "Expression", "CannotSetVariable"}
    /\ \E p \in Programs :
          /\ program' = p
          /\ frames' = <<p>>
          /\ slots' = MaxSlots - Cardinality({i \in 1..Len(p) : p[i] = Slot})
    /\ scopes' = push(evaluate_local(scopes))
    /\ entered' = <<KeySets(evaluate_local(scopes))>>
    /\ result' = Running
    /\ assigned' = {}
    /\ last' = [kind |-> "call",
                 dropped |-> {n \in Names : get_attribute(scopes, n).some}]
    /\ UNCHANGED <<global, refused, evars>>

Depth == Len(frames)
Block == frames[Depth]
AtInstruction == result = Running /\ Depth > 0 /\ Len(Block) > 0

\* The blocks an open slot may hold: open slots again, MaxSlots in all.
DrawnBlocks ==
    {[then_block |-> Slots(k), else_block |-> e] :
        k \in 0..slots,
        e \in {NoBlock} \cup {SomeBlock(Slots(j)) : j \in 0..slots}}

\* The loop moves to the next instruction of the running block.
Advance == [frames EXCEPT ![Depth] = Tail(@)]

\* A changed error path: the error is dropped and the loop goes on.
Return_ignored(err) ==
    /\ result' = Running
    /\ frames' = Advance
    /\ scopes' = scopes
    /\ entered' = entered

\* An Err leaves evaluate_inner and evaluate at once (try!, return Err):
\* no scope is popped; the Scopes is as the failing instruction found it
\* when evaluate returns and drops it.
Return(err) ==
    /\ result' = err
    /\ frames' = <<>>
    /\ scopes' = scopes
    /\ entered' = <<>>

\* Instruction::Assignment to a local variable.
AssignLocalOf(instr) ==
    /\ instr.kind = "Assignment"
    /\ instr.variable.local
    /\ LET res == evaluate(instr.expression, HashMapGettable(global),
                            ScopesGettable(scopes))
           set == set_attribute(scopes, instr.variable.name, res.value)
       IN  IF res.tag # "Ok"
           THEN /\ Return(Failure(res))
                /\ last' = [kind |-> "assign", variable |-> instr.variable,
                             depth |-> Depth, res |-> res, returned |-> None]
           ELSE /\ scopes' = set.inner
                /\ frames' = Advance
                /\ result' = Running
                /\ entered' = entered
                /\ last' = [kind |-> "assign", variable |-> instr.variable,
                             depth |-> Depth, res |-> res, returned |-> set.returned]

AssignLocal ==
    /\ AtInstruction
    /\ IF Head(Block) = Slot
       THEN \E n \in Names, e \in RuleExpressions : AssignLocalOf(Assignment(TRUE, n, e))
       ELSE AssignLocalOf(Head(Block))
    /\ UNCHANGED <<program, global, refused, slots, assigned, evars>>

\* A changed check: the result of the store's set is not looked at.
CheckSet_ignored(set_ok, name) == Running

\* `if result.is_err() { return Err(RulesError::CannotSetVariable(..)) }`
CheckSet(set_ok, name) == IF set_ok THEN Running ELSE CannotSetVariable(name)

\* Instruction::Assignment to a global variable.
AssignGlobalOf(instr) ==
    /\ instr.kind = "Assignment"
    /\ ~instr.variable.local
    /\ LET res == evaluate(instr.expression, HashMapGettable(global),
                            ScopesGettable(scopes))
           set == global_set_attribute(global, refused, instr.variable.name,
                                       res.value)
           checked == CheckSet(set.ok, instr.variable.name)
       IN  /\ last' = [kind |-> "assign", variable |-> instr.variable,
                        depth |-> Depth, res |-> res, returned |-> None]
           /\ IF res.tag # "Ok"
              THEN Return(Failure(res)) /\ UNCHANGED <<global, assigned>>
              ELSE IF checked # Running
              THEN Return(checked) /\ global' = set.store /\ UNCHANGED assigned
              ELSE /\ global' = set.store
                   /\ assigned' = assigned \cup {instr.variable.name}
                   /\ frames' = Advance
                   /\ result' = Running
                   /\ UNCHANGED <<scopes, entered>>

AssignGlobal ==
    /\ AtInstruction
    /\ IF Head(Block) = Slot
       THEN \E n \in Names, e \in RuleExpressions : AssignGlobalOf(Assignment(FALSE, n, e))
       ELSE AssignGlobalOf(Head(Block))
    /\ UNCHANGED <<program, refused, slots, evars>>

\* A changed choice: the branches are taken the other way round.
ChosenBlock_swapped(instr, c) ==
    IF c THEN instr.else_block ELSE SomeBlock(instr.then_block)

\* `if try!(condition...) { then_block } else { if let Some(ref e) = *else_block }`:
\* the block that is evaluated, if any.
ChosenBlock(instr, c) ==
    IF c THEN SomeBlock(instr.then_block) ELSE instr.else_block

\* Instruction::IfBlock: the condition, then the entry into the chosen block
\* (evaluate_inner opens with local.push()).
IfOf(instr) ==
    /\ instr.kind = "IfBlock"
    /\ LET c == Condition_evaluate(instr.condition, HashMapGettable(global),
                                   ScopesGettable(scopes))
           chosen == ChosenBlock(instr, c.value)
       IN  /\ last' = [kind |-> "if", instr |-> instr, depth |-> Depth, cond |-> c]
           /\ IF c.tag # "Ok"
              THEN Return(Failure(c))
              ELSE IF chosen.some
              THEN /\ frames' = Append(Advance, chosen.instructions)
                   /\ scopes' = push(scopes)
                   /\ entered' = Append(entered, KeySets(scopes))
                   /\ result' = Running
              ELSE /\ frames' = Advance
                   /\ scopes' = scopes
                   /\ entered' = entered
                   /\ result' = Running

If ==
    /\ AtInstruction
    /\ IF Head(Block) = Slot
       THEN \E c \in RuleConditions, b \in DrawnBlocks :
               /\ Len(b.then_block) + Len(b.else_block.instructions) <= slots
               /\ slots' = slots - Len(b.then_block) - Len(b.else_block.instructions)
               /\ IfOf(IfBlock(c, b.then_block, b.else_block))
       ELSE IfOf(Head(Block)) /\ UNCHANGED slots
    /\ UNCHANGED <<program, global, refused, assigned, evars>>

\* The instruction list is exhausted: local.pop(), Ok(()).  The caller is the
\* loop of the enclosing block, or evaluate when this was the rule's block.
EndBlock ==
    /\ result = Running
    /\ Depth > 0
    /\ Len(Block) = 0
    /\ scopes' = pop(scopes)
    /\ frames' = SubSeq(frames, 1, Depth - 1)
    /\ entered' = SubSeq(entered, 1, Depth - 1)
    /\ result' = IF Depth = 1 THEN RulesOk ELSE Running
    /\ last' = [kind |-> "end", depth |-> Depth, dropped |-> DOMAIN scopes[Len(scopes)],
                 entry |-> entered[Depth]]
    /\ UNCHANGED <<program, global, refused, slots, assigned, evars>>

Next == Call \/ AssignLocal \/ AssignGlobal \/ If \/ EndBlock

Spec == Init /\ [][Next]_vars

\* =================================================================== claims
MaxOf(S) == CHOOSE x \in S : \A y \in S : y <= x

\* The step just taken executed an assignment to a local variable whose
\* expression evaluated to a value.
LocalWriteStep ==
    /\ AtInstruction
    /\ last'.kind = "assign"
    /\ last'.variable.local
    /\ last'.res.tag = "Ok"

\* The frames of the scope stack that bind name n.
Binders(n) == {i \in 1..Len(scopes) : n \in DOMAIN scopes[i]}

C1_WriteRule ==
    LocalWriteStep =>
        LET n == last'.variable.name
            v == last'.res.value
        IN  IF Binders(n) # {}
            THEN LET i == MaxOf(Binders(n))
                 IN  /\ scopes' = [scopes EXCEPT ![i] = [@ EXCEPT ![n] = v]]
                     /\ last'.returned = Some(scopes[i][n])
            ELSE /\ Len(scopes') = Len(scopes)
                 /\ \A i \in 1..(Len(scopes) - 1) : scopes'[i] = scopes[i]
                 /\ scopes'[Len(scopes)] = Insert(scopes[Len(scopes)], n, v)
                 /\ last'.returned = None

C1_Example ==
    (program = ScopingExample /\ result = RulesOk)
        => (global["a"] = 2 /\ global["b"] = 2)

\* C1: an assignment to local name n overwrites in place the binding of n in
\* the innermost active frame that binds n and returns the old value; it
\* creates a binding, in the innermost frame only, exactly when no active
\* frame binds n.  The rule `a=1; if 1 == 1 { a=2; $a=a; } $b=a;` ends with
\* $a = 2 and $b = 2.
C1_ScopeStackWriteRule == [][C1_WriteRule]_vars /\ []C1_Example

\* The example rule has run to its end: the assignment inside the branch has
\* overwritten the binding of the enclosing block.
C1_Witness ==
    /\ program = ScopingExample
    /\ result = RulesOk
    /\ global["a"] = 2
    /\ global["b"] = 2


\* ------------------------------------------------------------------------
\* The stack depth a postfix program reaches when each constant or variable
\* pushes one value and each operator replaces two values by one; -1 when an
\* operator finds fewer than two values.
RECURSIVE DepthAfter(_, _, _)
DepthAfter(expression, i, d) ==
    IF i > Len(expression) THEN d
    ELSE IF expression[i].kind = "Op"
    THEN (IF d < 2 THEN -1 ELSE DepthAfter(expression, i + 1, d - 1))
    ELSE DepthAfter(expression, i + 1, d + 1)

WellFormed(expression) == DepthAfter(expression, 1, 0) = 1

AllBound ==
    \A i \in 1..Len(e_expression) :
        e_expression[i].kind = "Variable" =>
            e_expression[i].name \in
                DOMAIN (IF e_expression[i].local THEN e_local ELSE e_global)

\* C2: with every variable bound, evaluate returns Ok exactly when every
\* operator finds its operands and exactly one value remains at the end, and
\* InvalidExpression in every other case.
C2_OkExactlyWhenWellFormed ==
    (e_result # Pending /\ AllBound) =>
        IF WellFormed(e_expression)
        THEN e_result.tag = "Ok"
        ELSE e_result.tag = "InvalidExpression"

\* ------------------------------------------------------------------------
\* The step about to be taken applies an operator to a stack of two or more.
OperatorStep ==
    /\ e_result = Pending
    /\ e_index <= Len(e_expression)
    /\ e_expression[e_index].kind = "Op"
    /\ Len(e_stack) >= 2

C3_Step ==
    OperatorStep =>
        LET a == e_stack[Len(e_stack) - 1]
            b == e_stack[Len(e_stack)]
            below == SubSeq(e_stack, 1, Len(e_stack) - 2)
            op == e_expression[e_index].op
        IN  /\ op = "Plus" => e_stack' = Append(below, a + b)
            /\ op = "Minus" => e_stack' = Append(below, a - b)
            /\ op = "Multiply" => e_stack' = Append(below, a * b)
            /\ (op = "Divide" /\ b # 0) => e_stack' = Append(below, TruncDiv(a, b))
            /\ (op = "Pow" /\ b >= 0) => e_stack' = Append(below, IntPow(a, b))
            /\ (op # "Divide" \/ b # 0) => e_result' = Pending

IsOperand(m) == m.kind = "Constant"

C3_Program ==
    /\ Len(e_expression) = 3
    /\ IsOperand(e_expression[1])
    /\ IsOperand(e_expression[2])
    /\ e_expression[3].kind = "Op"
    /\ e_result # Pending

C3_Result ==
    C3_Program =>
        LET a == e_expression[1].value
            b == e_expression[2].value
            op == e_expression[3].op
        IN  /\ op = "Plus" => e_result = Ok(a + b)
            /\ op = "Minus" => e_result = Ok(a - b)
            /\ op = "Multiply" => e_result = Ok(a * b)
            /\ (op = "Divide" /\ b # 0) => e_result = Ok(TruncDiv(a, b))
            /\ (op = "Pow" /\ b >= 0) => e_result = Ok(IntPow(a, b))

\* C3: a binary operator takes the value popped first as its right operand
\* and the value popped second as its left operand, and its single result
\* replaces the two operands on the stack; the program [a, b, op] evaluates
\* to a op b (a - b, a / b, never b - a, b / a).
C3_OperandOrder == [][C3_Step]_vars /\ []C3_Result

\* [2, 1, Minus] has evaluated to 2 - 1.
C3_Witness ==
    /\ e_expression = <<Constant(2), Constant(1), Op("Minus")>>
    /\ e_result = Ok(1)

\* ------------------------------------------------------------------------
\* The step about to be taken resolves a variable member.
VariableStep ==
    /\ e_result = Pending
    /\ e_index <= Len(e_expression)
    /\ e_expression[e_index].kind = "Variable"

C4_Step ==
    VariableStep =>
        LET member == e_expression[e_index]
            store == IF member.local THEN e_local ELSE e_global
        IN  IF member.name \in DOMAIN store
            THEN /\ e_stack' = Append(e_stack, store[member.name])
                 /\ e_result' = Pending
            ELSE e_result' = VariableNotFound(member.name)

\* `$b + 1` on a global store that does not bind b.
C4_Example ==
    (/\ e_expression = <<Variable(FALSE, "b"), Constant(1), Op("Plus")>>
     /\ "b" \notin DOMAIN e_global
     /\ e_result # Pending)
        => e_result = VariableNotFound("b")

\* C4: a variable member is resolved only in the store its scope kind
\* selects; when that store does not bind the name, evaluate fails with
\* VariableNotFound carrying that name, even when the other store binds it.
C4_StoreSelectedByKind == [][C4_Step]_vars /\ []C4_Example

\* A global reference to b has failed although the local store binds b.
C4_Witness ==
    /\ e_expression = <<Variable(FALSE, "b"), Constant(1), Op("Plus")>>
    /\ "b" \notin DOMAIN e_global
    /\ "b" \in DOMAIN e_local
    /\ e_result = VariableNotFound("b")

\* ------------------------------------------------------------------------
\* What Condition::evaluate returns for a sub-condition, on the stores given.
Outcome(cond) ==
    Condition_evaluate(cond, HashMapGettable(e_global), HashMapGettable(e_local))

\* C5: Logic(l, op, r) evaluates l first and returns its error if it fails;
\* for AND with l false the result is Ok(false) and for OR with l true it
\* is Ok(true), whatever r would give (an r that raises VariableNotFound
\* does not make the condition fail); in the two other cases the outcome is
\* exactly the outcome of r.
C5_ShortCircuit ==
    (c_result # CondPending /\ c_condition.kind = "Logic") =>
        LET l == Outcome(c_condition.left)
            r == Outcome(c_condition.right)
            op == c_condition.op
        IN  IF l.tag # "Ok" THEN c_result = l
            ELSE IF op = "And" /\ ~l.value THEN c_result = OkBool(FALSE)
            ELSE IF op = "Or" /\ l.value THEN c_result = OkBool(TRUE)
            ELSE c_result = r

\* `Exists(a) && b == 1`: the global store binds no a, so the left operand is
\* false, and the right operand reads the unbound local b: the result is
\* Ok(false).
C5_Witness ==
    /\ c_condition = Logic(Exists("a"), "And",
                           Comparison(<<Variable(TRUE, "b")>>, "Equal", <<Constant(1)>>))
    /\ "a" \notin DOMAIN e_global
    /\ "b" \notin DOMAIN e_local
    /\ Outcome(c_condition.right) = [tag |-> "VariableNotFound", value |-> FALSE, text |-> "b"]
    /\ c_result = OkBool(FALSE)

\* ------------------------------------------------------------------------
\* The step just taken evaluated the condition Exists(n) of an if-block.
ExistsChecked(n) ==
    /\ last.kind = "if"
    /\ last.instr.condition = Exists(n)

\* The step that is taken sets global n: the expression has a value and the
\* store accepts the write.
GlobalWriteStep(n) ==
    /\ AtInstruction
    /\ last'.kind = "assign"
    /\ ~last'.variable.local
    /\ last'.variable.name = n
    /\ last'.res.tag = "Ok"
    /\ n \notin refused

C6_Iff ==
    \A n \in Names : ExistsChecked(n) => last.cond = OkBool(n \in DOMAIN global)

C6_TrueAfter == \A n \in assigned : n \in DOMAIN global

C6_FalseBefore ==
    \A n \in Names :
        (ExistsChecked(n) /\ n \notin assigned) => last.cond = OkBool(FALSE)

C6_BindingStep ==
    \A n \in Names :
        (n \in DOMAIN global') <=> (n \in DOMAIN global \/ GlobalWriteStep(n))

\* C6 as stated: Exists(n) is true iff the global store binds n, a local n
\* never makes it true, and within one rule evaluation it is false before any
\* successful assignment to global n and true in every instruction after one.
C6_ExistsWithinOneEvaluation == C6_Iff /\ C6_TrueAfter /\ C6_FalseBefore

\* C6, amended: Exists(n) is true iff the global store binds n when the
\* condition is evaluated, whatever the scope stack holds; a name the call
\* has assigned is bound in every later state, and during a call a global
\* name becomes bound only by a successful assignment to it and never becomes
\* unbound: so Exists(n) is false before the first successful assignment to
\* global n exactly when the store given to evaluate did not bind n.
C6_ExistsIffGlobalBinds ==
    [][C6_BindingStep]_vars /\ [](C6_Iff /\ C6_TrueAfter)

\* Exists("a") was found false although a local a is bound, after the call
\* has set global b.
C6_Witness ==
    /\ ExistsChecked("a")
    /\ last.cond = OkBool(FALSE)
    /\ get_attribute(scopes, "a").some
    /\ "a" \notin DOMAIN global
    /\ "b" \in assigned

\* ------------------------------------------------------------------------
ExpressionErrors == {"VariableNotFound", "InvalidExpression"}
RulesErrors == {"Expression", "CannotSetVariable"}

\* The instruction that the step executes fails because its expression or
\* its condition returns an ExpressionError.
ExpressionFailureStep ==
    /\ AtInstruction
    /\ \/ last'.kind = "assign" /\ last'.res.tag \in ExpressionErrors
       \/ last'.kind = "if" /\ last'.cond.tag \in ExpressionErrors

\* The instruction that the step executes is a global assignment whose
\* expression has a value and whose write the store refuses.
RefusedWriteStep ==
    /\ AtInstruction
    /\ last'.kind = "assign"
    /\ ~last'.variable.local
    /\ last'.res.tag = "Ok"
    /\ last'.variable.name \in refused

\* The instruction that the step executes aborts the thread.
AbortStep ==
    /\ AtInstruction
    /\ \/ last'.kind = "assign" /\ last'.res.tag = "Panic"
       \/ last'.kind = "if" /\ last'.cond.tag = "Panic"

C7_Failure ==
    /\ ExpressionFailureStep =>
          LET err == IF last'.kind = "assign" THEN last'.res ELSE last'.cond
          IN  /\ result' = [tag |-> "Expression", error |-> err.tag,
                             text |-> err.text]
              /\ frames' = <<>>
              /\ global' = global
    /\ RefusedWriteStep =>
          /\ result' = [tag |-> "CannotSetVariable", error |-> "",
                         text |-> last'.variable.name]
          /\ frames' = <<>>
          /\ global' = global
    /\ AbortStep => (frames' = <<>> /\ global' = global)

\* After an error nothing is executed: the next step is another call.
C7_NothingAfter ==
    (result.tag \in RulesErrors) => (frames = <<>> /\ last'.kind = "call")

\* The global store changes by the successful global assignments only, each
\* contributing its one write.
C7_Writes ==
    /\ \A n \in Names :
          GlobalWriteStep(n) => global' = Insert(global, n, last'.res.value)
    /\ (\A n \in Names : ~GlobalWriteStep(n)) => global' = global

\* In ScopeEndExample the read of a in the second branch is the first
\* failure, unless the store refuses `$a=a;` before: the call returns that
\* error, and of `$a=a; $b=a; $b=1; $a=1;` only the writes before it are made.
C7_Example ==
    (program = ScopeEndExample /\ result # Running) =>
        IF "a" \in refused
        THEN result = CannotSetVariable("a") /\ assigned = {}
        ELSE /\ result = RulesError_from(VariableNotFound("a"))
             /\ assigned = {"a"}
             /\ global["a"] = 2

\* C7: the instruction that fails first (its expression or condition returns
\* an error, or the store refuses its global write) ends the evaluation at
\* any depth: evaluate returns that error, nothing after it is executed in
\* any enclosing block, the failing instruction writes nothing, and the
\* global store holds exactly the writes of the instructions executed before.
C7_StopsAtFirstFailure ==
    [][C7_Failure /\ C7_NothingAfter /\ C7_Writes]_vars /\ []C7_Example

\* The read of a in the sibling branch, two blocks deep, has failed after
\* `$a=a;` was executed; `$b=1;` and `$a=1;` were not.
C7_Witness ==
    /\ program = ScopeEndExample
    /\ result = RulesError_from(VariableNotFound("a"))
    /\ last.kind = "assign"
    /\ last.depth = 2
    /\ assigned = {"a"}
    /\ global["a"] = 2

\* ------------------------------------------------------------------------
\* The step just taken was a global assignment whose expression has a value.
GlobalAssignmentDone ==
    /\ last.kind = "assign"
    /\ ~last.variable.local
    /\ last.res.tag = "Ok"

\* C8: when the set operation of the global store fails for an assignment
\* to a global name, evaluate returns CannotSetVariable with exactly that
\* name, and CannotSetVariable is returned in no other case; with a store
\* that refuses every write, the first global assignment executed whose
\* expression has a value ends the call with CannotSetVariable of its name,
\* and nothing is ever set.
C8_CannotSetVariable ==
    /\ (GlobalAssignmentDone /\ last.variable.name \in refused)
          => result = CannotSetVariable(last.variable.name)
    /\ (result.tag = "CannotSetVariable")
          => /\ GlobalAssignmentDone
             /\ last.variable.name \in refused
             /\ result.text = last.variable.name
    /\ (refused = Names) =>
          /\ assigned = {}
          /\ GlobalAssignmentDone
                => result = CannotSetVariable(last.variable.name)

\* A store that refuses every write, and a global assignment to b inside a
\* branch that has returned CannotSetVariable("b").
C8_Witness ==
    /\ refused = Names
    /\ GlobalAssignmentDone
    /\ last.variable.name = "b"
    /\ last.depth >= 2
    /\ result = CannotSetVariable("b")

\* ------------------------------------------------------------------------
\* A read of local n, as an instruction of the running block would do it.
Read(n) ==
    evaluate(<<Variable(TRUE, n)>>, HashMapGettable(global), ScopesGettable(scopes))

Bound(inner, n) == get_attribute(inner, n).some

\* A block has just ended: the names bound in its frame are unbound.
C9_Unbound ==
    (last.kind = "end") =>
        \A n \in last.dropped : Read(n) = VariableNotFound(n)

\* A local assignment to n has just been made: n reads as the assigned value.
C9_BoundInside ==
    (last.kind = "assign" /\ last.variable.local /\ last.res.tag = "Ok")
        => Read(last.variable.name) = Ok(last.res.value)

\* While a call runs, what a read of n gives changes only by a local
\* assignment to n or by the end of the block whose frame binds n: the
\* binding is seen in the blocks nested in that block, and after the block
\* has ended the name stays unbound until it is assigned again.
C9_Step ==
    (result = Running /\ result' = Running) =>
        \A n \in Names :
            get_attribute(scopes', n) # get_attribute(scopes, n) =>
                \/ LocalWriteStep /\ last'.variable.name = n
                \/ /\ last'.kind = "end"
                   /\ n \in last'.dropped
                   /\ ~Bound(scopes', n)

\* In ScopeEndExample a is read as 2 in the block nested in the branch that
\* binds it, and is unbound in the sibling branch.
C9_Example ==
    (program = ScopeEndExample /\ result # Running /\ "a" \notin refused) =>
        /\ result = RulesError_from(VariableNotFound("a"))
        /\ global["a"] = 2

\* C9: a local name first bound inside a branch is unbound again as soon as
\* the branch ends; a read after the branch, in the enclosing block or in a
\* sibling branch, fails with VariableNotFound of that name, and a read
\* inside the branch or in a block nested in it gives the assigned value.
C9_BranchLocalsEndWithBranch ==
    [][C9_Step]_vars /\ [](C9_Unbound /\ C9_BoundInside /\ C9_Example)

\* The branch that bound a has ended at depth 2, a is unbound again, and the
\* nested block had read a as 2.
C9_Witness ==
    /\ program = ScopeEndExample
    /\ last.kind = "end"
    /\ last.depth = 2
    /\ last.dropped = {"a"}
    /\ Read("a") = VariableNotFound("a")
    /\ global["a"] = 2
    /\ assigned = {"a"}

\* ------------------------------------------------------------------------
\* The step executes an if-block whose condition evaluates without error.
IfStep ==
    /\ AtInstruction
    /\ last'.kind = "if"
    /\ last'.cond.tag = "Ok"

C10_Step ==
    IfStep =>
        LET instr == last'.instr
            rest == [frames EXCEPT ![Len(frames)] = Tail(@)]
        IN  /\ global' = global
            /\ IF last'.cond.value
               THEN /\ frames' = Append(rest, instr.then_block)
                    /\ scopes' = Append(scopes, EmptyMap)
               ELSE IF instr.else_block.some
               THEN /\ frames' = Append(rest, instr.else_block.instructions)
                    /\ scopes' = Append(scopes, EmptyMap)
               ELSE /\ frames' = rest
                    /\ scopes' = scopes

\* `if $a exists { $b=1; } else { $a=2; }` makes exactly one of its writes.
C10_Example ==
    (program = IfElseExample /\ result = RulesOk) =>
        \/ assigned = {"b"} /\ global["b"] = 1 /\ "a" \in DOMAIN global
        \/ assigned = {"a"} /\ global["a"] = 2

\* C10: an if-block whose condition evaluates without error runs the
\* then-block and not the else-block when the condition is true, the
\* else-block and not the then-block when it is false and there is an
\* else-block, and otherwise runs neither and leaves the global store and
\* the scope stack as they were.
C10_ExactlyOneBranch == [][C10_Step]_vars /\ []C10_Example

\* The else-block of the example has run, the then-block has not.
C10_Witness ==
    /\ program = IfElseExample
    /\ result = RulesOk
    /\ assigned = {"a"}
    /\ global["a"] = 2
    /\ "b" \notin DOMAIN global

\* ------------------------------------------------------------------------
\* evaluate has just been entered.
Entered == last.kind = "call"

C12_FreshScopes ==
    Entered =>
        /\ scopes = <<EmptyMap>>
        /\ frames = <<program>>
        /\ \A n \in Names : Read(n) = VariableNotFound(n)

\* Entering evaluate leaves the global store as the previous call left it.
C12_Carried == (last'.kind = "call") => global' = global

\* C12: every call of evaluate starts from an empty scope stack, whatever
\* the previous call has bound: a local name bound by an earlier call is
\* unbound in the later one, and the global store is what passes from one
\* call to the next.
C12_LocalsDoNotSurvive == [][C12_Carried]_vars /\ []C12_FreshScopes

\* The previous call returned an error with local a bound; the call that
\* has just been entered reads a as unbound.
C12_Witness ==
    /\ Entered
    /\ last.dropped = {"a"}
    /\ Read("a") = VariableNotFound("a")
    /\ global # EmptyMap

\* ------------------------------------------------------------------------
\* The instructions of an instruction tree: an if-block counts itself and
\* the instructions of its blocks, an open slot counts one (what it holds
\* is taken from the slots still undrawn).
RECURSIVE TreeSize(_)
TreeSize(instructions) ==
    IF Len(instructions) = 0 THEN 0
    ELSE LET instr == Head(instructions)
             own == IF instr.kind = "IfBlock"
                    THEN 1 + TreeSize(instr.then_block)
                           + TreeSize(instr.else_block.instructions)
                    ELSE 1
         IN  own + TreeSize(Tail(instructions))

RECURSIVE Pending_instructions(_, _)
Pending_instructions(fs, i) ==
    IF i = 0 THEN 0 ELSE TreeSize(fs[i]) + Pending_instructions(fs, i - 1)

\* What a running call has still to do at most: every instruction not yet
\* reached, and the end of every block it is in.
Work(fs, open) == 2 * (Pending_instructions(fs, Len(fs)) + open) + Len(fs)

\* Every step of a running call executes an instruction that is not
\* executed again, or ends a block: the work left goes down.
C13_Progress ==
    (result = Running) =>
        /\ Work(frames, slots) > 0
        /\ Work(frames', slots') < Work(frames, slots)

\* A call that is over has returned Ok or an error.
C13_Returned ==
    result.tag \in {"Idle", "Running", "Ok", "Expression", "CannotSetVariable"}

\* C13: every call of evaluate on a finite program terminates, returning Ok
\* or an error: each instruction of the tree is executed at most once.
C13_Terminates == [][C13_Progress]_vars /\ []C13_Returned

\* ------------------------------------------------------------------ C14
\* The number of operands the operator of a function pops.
Arity(func) == Func_into(func).op.arity

RECURSIVE ArityRespected(_)
\* Every function call of the tree has as many arguments as its operator pops.
ArityRespected(tree) ==
    CASE tree.kind = "Number" -> TRUE
      [] tree.kind = "Variable" -> TRUE
      [] tree.kind = "Function" ->
            /\ Len(tree.args) = Arity(tree.func)
            /\ \A i \in 1..Len(tree.args) : ArityRespected(tree.args[i])
      [] tree.kind = "Op" -> ArityRespected(tree.l) /\ ArityRespected(tree.r)
      [] tree.kind = "Signed" -> ArityRespected(tree.r)

RECURSIVE VariablesOf(_)
VariablesOf(tree) ==
    CASE tree.kind = "Number" -> {}
      [] tree.kind = "Variable" -> {<<tree.local, tree.name>>}
      [] tree.kind = "Function" ->
            UNION {VariablesOf(tree.args[i]) : i \in 1..Len(tree.args)}
      [] tree.kind = "Op" -> VariablesOf(tree.l) \cup VariablesOf(tree.r)
      [] tree.kind = "Signed" -> VariablesOf(tree.r)

VariablesBound(tree, global_variables, local_variables) ==
    \A v \in VariablesOf(tree) :
        IF v[1] THEN v[2] \in DOMAIN local_variables
        ELSE v[2] \in DOMAIN global_variables

RECURSIVE SignFree(_)
\* The trees that are a Node as well: no Signed in them.
SignFree(tree) ==
    CASE tree.kind = "Number" -> TRUE
      [] tree.kind = "Variable" -> TRUE
      [] tree.kind = "Function" -> \A i \in 1..Len(tree.args) : SignFree(tree.args[i])
      [] tree.kind = "Op" -> SignFree(tree.l) /\ SignFree(tree.r)
      [] tree.kind = "Signed" -> FALSE

RECURSIVE TreeValue(_, _, _)
\* The value of a tree whose calls respect the arities and whose variables are
\* bound, computed on the tree: the operator of a node applied to the values of
\* its operands, left and right in source order.
TreeValue(tree, global_variables, local_variables) ==
    CASE tree.kind = "Number" -> Num(tree.num)
      [] tree.kind = "Variable" ->
            IF tree.local THEN Num(local_variables[tree.name])
            ELSE Num(global_variables[tree.name])
      [] tree.kind = "Function" ->
            IF Arity(tree.func) = 1
            THEN Apply1(tree.func,
                        TreeValue(tree.args[1], global_variables, local_variables))
            ELSE Apply2(tree.func,
                        TreeValue(tree.args[1], global_variables, local_variables),
                        TreeValue(tree.args[2], global_variables, local_variables))
      [] tree.kind = "Op" ->
            Apply2(tree.op, TreeValue(tree.l, global_variables, local_variables),
                   TreeValue(tree.r, global_variables, local_variables))
      [] tree.kind = "Signed" ->
            IF tree.sign = "Plus"
            THEN TreeValue(tree.r, global_variables, local_variables)
            ELSE Apply1("Minus", TreeValue(tree.r, global_variables, local_variables))

Lowered == e_index >= 1
Evaluated == e_result.tag # "Pending"

\* The lowered program of a tree without Signed is the one Node::convert emits.
C14_SameAsNode == Lowered /\ SignFree(e_tree) => e_expression = Node_convert(e_tree)

C14_SameValue ==
    Evaluated /\ ArityRespected(e_tree) /\ VariablesBound(e_tree, e_global, e_local)
        => /\ e_result.tag = "Ok"
           /\ e_result.value = TreeValue(e_tree, e_global, e_local)

\* C14: the lowering emits the operands of a node in source order and then its
\* operator (nothing for a unary plus), so that, for every tree whose function
\* calls have as many arguments as their operators pop and whose variables are
\* bound, evaluating the lowered program returns Ok with the value the tree
\* has when it is evaluated recursively, left operand before right operand.
C14_LoweringIsPostOrder == C14_SameAsNode /\ C14_SameValue

\* -(1) - b was lowered to [1, neg, b, -] and evaluated to (neg 1) - b.
C14_Witness ==
    /\ e_tree = Expr_Op(Signed("Minus", Number(1)), "Minus", Expr_Variable(TRUE, "b"))
    /\ e_expression = <<Constant(1), Op(Unary("Minus")), Variable(TRUE, "b"),
                        Op(Binary("Minus"))>>
    /\ e_result.tag = "Ok"
    /\ e_result.value = Apply2("Minus", Apply1("Minus", Num(1)), Num(e_local["b"]))

\* ------------------------------------------------------------------ C15
\* C15: for every tree that has a function call whose number of arguments is
\* not the number of operands its operator pops, evaluating the lowered
\* program with every variable bound returns InvalidExpression.
C15_WrongArityIsInvalidExpression ==
    Evaluated /\ ~ArityRespected(e_tree) /\ VariablesBound(e_tree, e_global, e_local)
        => e_result.tag = "InvalidExpression"

\* ------------------------------------------------------------------ C16
RECURSIVE NumberValue(_)
\* The number a term over small integers stands for (+, -, * and ^ with a
\* natural exponent are exact in floating point on them).
NumberValue(term) ==
    CASE term[1] = "num" -> term[2]
      [] Len(term) = 2 /\ term[1] = "Minus" -> 0 - NumberValue(term[2])
      [] Len(term) = 3 /\ term[1] = "Plus" ->
            NumberValue(term[2]) + NumberValue(term[3])
      [] Len(term) = 3 /\ term[1] = "Minus" ->
            NumberValue(term[2]) - NumberValue(term[3])
      [] Len(term) = 3 /\ term[1] = "Multiply" ->
            NumberValue(term[2]) * NumberValue(term[3])
      [] Len(term) = 3 /\ term[1] = "Pow" ->
            IntPow(NumberValue(term[2]), NumberValue(term[3]))

Accepted == e_index >= 0 /\ e_result.tag # "ParseError"
EvaluatesTo(n) == e_result.tag = "Ok" /\ NumberValue(e_result.value) = n
Leaf(token) == Number(NumberOf(token))

C16_Left ==
    \A a, b, c \in NumberTokens : \A o1, o2 \in {"+", "-"} :
        e_index >= 0 /\ e_input = <<a, o1, b, o2, c>>
            => /\ Accepted
               /\ e_tree = Expr_Op(Expr_Op(Leaf(a), BinOp(o1), Leaf(b)),
                                   BinOp(o2), Leaf(c))

C16_LeftMultiply ==
    \A a, b, c \in NumberTokens :
        e_index >= 0 /\ e_input = <<a, "*", b, "*", c>>
            => /\ Accepted
               /\ e_tree = Expr_Op(Expr_Op(Leaf(a), "Multiply", Leaf(b)),
                                   "Multiply", Leaf(c))

C16_Right ==
    \A a, b, c \in NumberTokens :
        e_index >= 0 /\ e_input = <<a, "^", b, "^", c>>
            => /\ Accepted
               /\ e_tree = Expr_Op(Leaf(a), "Pow", Expr_Op(Leaf(b), "Pow", Leaf(c)))

C16_Values ==
    /\ Evaluated /\ e_input = <<"1", "-", "2", "+", "3">> => EvaluatesTo(2)
    /\ Evaluated /\ e_input = <<"2", "^", "2", "^", "2">> => EvaluatesTo(16)

C17_LooserThanPower ==
    \A a, b \in NumberTokens : \A sign \in {"+", "-"} :
        e_index >= 0 /\ e_input = <<sign, a, "^", b>>
            => /\ Accepted
               /\ e_tree = Signed(SignOf(sign), Expr_Op(Leaf(a), "Pow", Leaf(b)))

C17_TighterThanBinary ==
    \A a, b \in NumberTokens : \A sign, op \in {"+", "-"} :
        e_index >= 0 /\ e_input = <<sign, a, op, b>>
            => /\ Accepted
               /\ e_tree = Expr_Op(Signed(SignOf(sign), Leaf(a)), BinOp(op), Leaf(b))

C17_Parenthesised ==
    e_index >= 0 /\ e_input = <<"2", "^", "(", "-", "2", ")">>
        => /\ Accepted
           /\ e_tree = Expr_Op(Number(2), "Pow", Signed("Minus", Number(2)))

\* An exponent that starts with a sign is a parse error, wherever it stands.
C17_SignedExponentRejected ==
    e_index >= 0
        /\ (\E i \in 1..(Len(e_input) - 1) :
                e_input[i] = "^" /\ e_input[i + 1] \in {"+", "-"})
        => e_result.tag = "ParseError"

C17_Value == Evaluated /\ e_input = <<"-", "2", "^", "2">> => EvaluatesTo(0 - 4)

\* C17: a prefix sign binds looser than ^ and tighter than binary + and -:
\* -2^2 is -(2^2) and evaluates to -4, - 1 - 2 is ((-1) - 2), 2^(-2) is
\* 2^(-(2)), and an exponent that starts with a sign outside parentheses, as
\* in 2^-2, is a parse error.
C17_SignPrecedence ==
    /\ C17_LooserThanPower
    /\ C17_TighterThanBinary
    /\ C17_Parenthesised
    /\ C17_SignedExponentRejected
    /\ C17_Value

\* -2^2 was parsed as -(2^2) and evaluated to -4.
C17_Witness ==
    /\ e_input = <<"-", "2", "^", "2">>
    /\ e_tree = Signed("Minus", Expr_Op(Number(2), "Pow", Number(2)))
    /\ EvaluatesTo(0 - 4)

\* ------------------------------------------------------------------ C18
ComparisonDone == c_condition.kind = "Comparison" /\ c_result # CondPending
LeftResult ==
    evaluate(c_condition.left, HashMapGettable(e_global), HashMapGettable(e_local))
RightResult ==
    evaluate(c_condition.right, HashMapGettable(e_global), HashMapGettable(e_local))
BothOk == LeftResult.tag = "Ok" /\ RightResult.tag = "Ok"

\* The order relation of an operator, on the difference l - r.
Relation(op, d) ==
    CASE op = "SuperiorStrict" -> d > 0
      [] op = "SuperiorEqual" -> d >= 0
      [] op = "InferiorStrict" -> d < 0
      [] op = "InferiorEqual" -> d <= 0
      [] op = "Equal" -> d = 0
      [] op = "Different" -> d # 0

\* What the comparison of the same operands with another operator returns.
With(op) ==
    Condition_evaluate(Comparison(c_condition.left, op, c_condition.right),
                       HashMapGettable(e_global), HashMapGettable(e_local))

C18_LeftErrorFirst ==
    ComparisonDone /\ LeftResult.tag # "Ok" => c_result = Raise(LeftResult)

C18_RightErrorNext ==
    ComparisonDone /\ LeftResult.tag = "Ok" /\ RightResult.tag # "Ok"
        => c_result = Raise(RightResult)

C18_OrderRelation ==
    ComparisonDone /\ BothOk
        => c_result = OkBool(Relation(c_condition.op,
                                      LeftResult.value - RightResult.value))

C18_Trichotomy ==
    ComparisonDone /\ BothOk
        => /\ Cardinality({op \in {"InferiorStrict", "Equal", "SuperiorStrict"} :
                              With(op) = OkBool(TRUE)}) = 1
           /\ With("Different").tag = "Ok"
           /\ With("Different").value = ~With("Equal").value
           /\ With("SuperiorEqual").value = ~With("InferiorStrict").value
           /\ With("InferiorEqual").value = ~With("SuperiorStrict").value

\* C18: Comparison(l, op, r) evaluates l, then r, and returns the truth value
\* of the order relation of op on the two numbers, for each of the six
\* operators; exactly one of <, ==, > holds, Different is the negation of
\* Equal, and an error of l is returned whatever r is.
C18_Comparison ==
    /\ C18_LeftErrorFirst
    /\ C18_RightErrorNext
    /\ C18_OrderRelation
    /\ C18_Trichotomy

\* l is ill-formed and r reads an unbound variable: the error is the one of l.
C18_Witness ==
    /\ ComparisonDone
    /\ LeftResult.tag = "InvalidExpression"
    /\ RightResult.tag = "VariableNotFound"
    /\ c_result.tag = "InvalidExpression"

\* ------------------------------------------------------------------ C19
\* The bound of lower..upper nearest to b, b itself when it is in the range.
Nearest(lower, b, upper) ==
    IF Less(b, lower) THEN lower ELSE IF Less(upper, b) THEN upper ELSE b

IntegerExponent == e_result.tag = "Ok" /\ e_stack[2].type = "I64"

\* C19: ValueType::pow with an I64 exponent gives the power routine the
\* bound of its range nearest to the exponent: for an I64 base the range is
\* 0..u32::MAX (a negative exponent is used as 0), for an F32 base it is
\* i32::MIN..i32::MAX; an exponent in the range is used unchanged.
C19_ExponentClamped ==
    IntegerExponent
        => e_result.value.value.exponent =
              IF e_stack[1].type = "I64"
              THEN Nearest(WideOf(0), e_stack[2].value, u32_MAX)
              ELSE Nearest(i32_MIN, e_stack[2].value, i32_MAX)

\* ------------------------------------------------------------------ C20
\* C20: ExpressionEvaluator::evaluate ends every program on every store with
\* Ok or with an ExpressionError: no operator application, a division by
\* zero included, aborts the evaluation.
C20_OkOrExpressionError ==
    e_result.tag \in {"Pending", "Ok"} \cup ExpressionErrors

\* ------------------------------------------------------------------ C21
\* The scopes under the one of the k-th active block.
Outer(k) == SubSeq(scopes, 1, k - 1)

\* While a block nested d if-levels deep runs there are d + 1 scopes.
C21_OneScopePerBlock == result = Running => Len(scopes) = Depth

\* A local assignment finds an innermost scope.
C21_InnermostScope == AtInstruction => Len(scopes) >= 1

\* A block starts on one more scope, an empty one.
BlockEntered ==
    \/ last.kind = "call"
    \/ /\ last.kind = "if"
       /\ last.cond.tag = "Ok"
       /\ ChosenBlock(last.instr, last.cond.value).some
C21_EmptyScopeAtEntry ==
    BlockEntered
        => /\ scopes[Len(scopes)] = EmptyMap
           /\ KeySets(Outer(Len(scopes))) = entered[Depth]

\* While a block runs, the scopes under its own have the keys they had when
\* it was entered.
C21_OuterKeysKept ==
    result = Running => \A k \in 1..Depth : KeySets(Outer(k)) = entered[k]

\* A block that returns Ok leaves the scopes it found, with their keys.
C21_RestoredAtOk ==
    last.kind = "end"
        => /\ Len(scopes) = last.depth - 1
           /\ KeySets(scopes) = last.entry

C21_NoScopeAfterOk == result = RulesOk => Len(scopes) = 0

\* C21: a block evaluation pushes one empty scope before its first
\* instruction and pops one after its last: while the instructions of a block
\* nested d if-levels deep run there are d + 1 scopes (so a local assignment
\* has an innermost scope), and when a block returns Ok the scope stack has
\* the depth and the keys in each outer scope that it had at entry, depth 0
\* after the rule's own block.
C21_ScopeBalance ==
    /\ C21_OneScopePerBlock
    /\ C21_InnermostScope
    /\ C21_EmptyScopeAtEntry
    /\ C21_OuterKeysKept
    /\ C21_RestoredAtOk
    /\ C21_NoScopeAfterOk

\* A nested block that bound a local of its own has returned Ok to a block
\* that holds a local.
C21_Witness ==
    /\ last.kind = "end"
    /\ last.depth = 2
    /\ last.dropped # {}
    /\ last.entry = <<{"a"}>>
    /\ KeySets(scopes) = <<{"a"}>>

\* ------------------------------------------------------------------ C22
\* The scopes that bind a name.
Binding(n) == {i \in 1..Len(scopes) : n \in DOMAIN scopes[i]}

C22_AtMostOne == \A n \in Names : Cardinality(Binding(n)) <= 1

C22_LookupIsTheBinding ==
    \A n \in Names : \A i \in Binding(n) :
        get_attribute(scopes, n) = Some(scopes[i][n])

\* C22: in every state of an evaluation each local name is bound in at most
\* one scope: no inner scope holds a second binding of a name an outer one
\* binds, and the innermost-first lookup of a name returns the value of its
\* one binding.
C22_UniqueBinding == C22_AtMostOne /\ C22_LookupIsTheBinding

\* An inner block has assigned a name that the outer scope binds: the outer
\* binding was replaced and the inner scope stays without it.
C22_Witness ==
    /\ last.kind = "assign"
    /\ last.variable.local
    /\ last.depth = 2
    /\ last.returned.some
    /\ Len(scopes) = 2
    /\ Binding(last.variable.name) = {1}

\* ------------------------------------------------------------------ C23
\* What each scope of a stack holds for a name.
BindingsOf(inner, n) ==
    [i \in 1..Len(inner) |-> IF n \in DOMAIN inner[i] THEN Some(inner[i][n]) ELSE None]

\* The step evaluates the expression of an assignment, which fails.
FailedExpressionStep ==
    AtInstruction /\ last'.kind = "assign" /\ last'.res.tag # "Ok"

\* The step evaluates the condition of an if-block.
ConditionStep == AtInstruction /\ last'.kind = "if"

\* The step executes a global assignment whose expression has a value.
GlobalAssignmentStep ==
    /\ AtInstruction
    /\ last'.kind = "assign"
    /\ ~last'.variable.local
    /\ last'.res.tag = "Ok"

C23_Evaluation ==
    /\ FailedExpressionStep => global' = global /\ scopes' = scopes
    /\ ConditionStep =>
          /\ global' = global
          /\ IF last'.cond.tag = "Ok" /\ ChosenBlock(last'.instr, last'.cond.value).some
             THEN scopes' = Append(scopes, EmptyMap)
             ELSE scopes' = scopes

C23_LocalAssignment ==
    LocalWriteStep =>
        /\ global' = global
        /\ Len(scopes') = Len(scopes)
        /\ \A m \in Names \ {last'.variable.name} :
              BindingsOf(scopes', m) = BindingsOf(scopes, m)
        /\ get_attribute(scopes', last'.variable.name) = Some(last'.res.value)

C23_GlobalAssignment ==
    GlobalAssignmentStep =>
        /\ scopes' = scopes
        /\ \A m \in Names \ {last'.variable.name} :
              get_var(global', m) = get_var(global, m)

C23_Step == C23_Evaluation /\ C23_LocalAssignment /\ C23_GlobalAssignment

\* C23: evaluating an expression or a condition, with or without error,
\* changes neither the global store nor the scopes (a block that is entered
\* then opens its empty scope); an assignment to a local variable leaves the
\* global store as it is and changes the binding of that name only; an
\* assignment to a global variable leaves the scopes as they are and changes
\* no other global name.
C23_FrameConditions == [][C23_Step]_vars

\* A local was assigned in a block that holds another local, on a store that
\* binds a global.
C23_Witness ==
    /\ last.kind = "assign"
    /\ last.variable.local
    /\ last.res.tag = "Ok"
    /\ result = Running
    /\ \E m \in Names \ {last.variable.name} : get_attribute(scopes, m).some
    /\ DOMAIN global # {}

=============================================================================
